---- MODULE Spec2Model ----
(***************************************************************************)
(* The Wizard component of src/src/Wizard.tsx as a state machine.          *)
(*                                                                         *)
(* A React function component keeps two pieces of state (step, data).      *)
(* The callbacks handed to the step-view (nextStep, prevStep, toStep,      *)
(* updateData, resetData) are closures over the values of the render that  *)
(* created them.  setStep/setData do not change those values: they queue   *)
(* an update that React applies when it re-renders the component after the *)
(* event handler has returned.  The model therefore keeps the rendered     *)
(* values (step, data), the values React will commit at the next render    *)
(* (pendingStep, pendingData) and a Render action for the commit.          *)
(* The callbacks reach their callers only through the step-view on screen  *)
(* (as its props and through the context scope around it), so calls are    *)
(* made only while a step-view is rendered.                                *)
(***************************************************************************)
EXTENDS Integers, Sequences, FiniteSets, TLC

\* ---------------------------------------------------------------- bounds
MaxSteps == 3      \* longest stepMapping considered
MaxVal   == 2      \* field values are 1..MaxVal
MaxCalls == 2      \* calls made by one event handler before React re-renders

\* ------------------------------------------------------------ JS values
Undefined == "undefined"           \* the value of steps[i] out of range
Absent    == 0                     \* a field that is not set in a Partial<T>
Fields    == {"x", "y"}
Vals      == 1..MaxVal
Partial   == [Fields -> Vals \cup {Absent}]
EmptyData == [f \in Fields |-> Absent]

\* Keys that Object.keys treats as array indices, with their numeric value.
IntegerKeys == {"1", "2"}
KeyNumber(k) == IF k = "1" THEN 1 ELSE 2

\* The step mappings tried, as the sequence of keys in definition order.
StepMappings ==
  { m \in { <<>>, <<"a">>, <<"a", "b">>, <<"b", "1">>, <<"a", "n">>,
            <<"a", "b", "c">>, <<"a", "b", "c", "d">> } : Len(m) <= MaxSteps }
StepIds == {"a", "b", "c", "d", "n", "1", "zz"}
\* Keys that the mappings tried map to undefined instead of a step-view.
NoViewKeys == {"n"}

RECURSIVE SortedInts(_)
SortedInts(S) ==
  IF S = {} THEN <<>>
  ELSE LET k == CHOOSE x \in S : \A y \in S : KeyNumber(x) <= KeyNumber(y)
       IN <<k>> \o SortedInts(S \ {k})

\* Object.keys: integer-like keys in ascending numeric order, then the
\* string keys in insertion order.
ObjectKeys(m) ==
  LET IsString(k) == k \notin IntegerKeys
  IN SortedInts({m[i] : i \in 1..Len(m)} \cap IntegerKeys) \o SelectSeq(m, IsString)

\* Array.prototype.indexOf: 0-based position, -1 when absent.
indexOf(arr, x) ==
  IF \E i \in 1..Len(arr) : arr[i] = x
  THEN (CHOOSE i \in 1..Len(arr) : arr[i] = x /\ \A j \in 1..(i-1) : arr[j] # x) - 1
  ELSE -1

\* Array.prototype.includes
includes(arr, x) == \E i \in 1..Len(arr) : arr[i] = x

\* arr[i] with a 0-based index: undefined outside the array.
At(arr, i) == IF i >= 0 /\ i < Len(arr) THEN arr[i + 1] ELSE Undefined

\* stepMapping[s]: the step-view (named by its key) or undefined.
StepView(m, s) ==
  IF (\E i \in 1..Len(m) : m[i] = s) /\ s \notin NoViewKeys THEN s ELSE Undefined

\* initialData = {}: the default of the destructured prop; the prop is <<>>
\* when it is not given and <<d>> otherwise.
DefaultInitialData(prop) == IF prop = <<>> THEN EmptyData ELSE prop[1]
InitialDataProps == { <<>>, << [EmptyData EXCEPT !["x"] = 1] >> }

\* the spread of prev left out: the record is replaced
Merge_replace(prev, newData) == newData

\* { ...prev, ...newData }
Merge(prev, newData) ==
  [f \in Fields |-> IF newData[f] # Absent THEN newData[f] ELSE prev[f]]

VARIABLES
  stepMapping,    \* prop: keys of the mapping in definition order
  initialData,    \* prop
  trackSteps,     \* prop
  onStepChange,   \* prop: TRUE when a callback is supplied
  step, data,     \* state as rendered: what the callbacks' closures hold
  pendingStep,    \* state React commits at the next render (queued setStep)
  pendingData,    \* same for data (queued setData, updaters applied in order)
  dataChanged,    \* the queued data is another object than the rendered one
  nOps,           \* calls made by the running event handler
  nNext,          \* how many of them were nextStep
  lastOp,         \* the running handler's most recent call and its argument
  nCalls,         \* onStepChange invocations made by the running handler
  lastCall,       \* arguments of the most recent of these invocations
  events,         \* 'wizard:step-change' payloads dispatched by the last commit
  contextValue,   \* the useMemo cell holding the broadcast value
  output,         \* what the last render returned
  readResult,     \* outcome of the last useWizardContext() of the last render
  justMounted,    \* nothing has happened since the mount
  mountData,      \* the initialData the wizard was mounted with
  soloCalls       \* nextStep calls made since nextStep became the only
                  \* operation called, NotSolo while any operation may be

vars == <<stepMapping, initialData, trackSteps, onStepChange, step, data,
          pendingStep, pendingData, dataChanged, nOps, nNext, lastOp,
          nCalls, lastCall, events, contextValue, output, readResult,
          justMounted, mountData, soloCalls>>
props == <<stepMapping, initialData, trackSteps, onStepChange>>

\* const steps = Object.keys(stepMapping)
steps == ObjectKeys(stepMapping)
stepIndex == indexOf(steps, step)
totalSteps == Len(steps)

NoCall == [stepId |-> "none", data |-> EmptyData, stepIndex |-> -1]
NoOp   == [name |-> "none", stepId |-> "none", newData |-> <<>>]
Op(n, id, d) == [name |-> n, stepId |-> id, newData |-> d]

\* typeof window !== 'undefined': effects only run in a browser.
WindowDefined == TRUE

\* the effect body without the trackSteps test
StepChangeEvent_untested(s) ==
  << [step |-> s, stepIndex |-> indexOf(ObjectKeys(stepMapping), s)] >>

\* The effect body: dispatches one CustomEvent when tracking is on.
StepChangeEvent(s) ==
  IF trackSteps /\ WindowDefined
  THEN << [step |-> s, stepIndex |-> indexOf(ObjectKeys(stepMapping), s)] >>
  ELSE << >>

\* Object.is(previous steps, steps): Object.keys builds a new array on every
\* render, so the dependency list [step, steps, trackSteps] always differs.
StepsIsSameArray == FALSE

\* The object handed to the context consumers and, field by field, to the
\* step-view as props.
ContextOf(s, d) ==
  [step |-> s, data |-> d,
   stepIndex |-> indexOf(ObjectKeys(stepMapping), s),
   totalSteps |-> Len(ObjectKeys(stepMapping))]
StepProps(s, d) ==
  [step |-> s, data |-> d,
   stepIndex |-> indexOf(ObjectKeys(stepMapping), s),
   totalSteps |-> Len(ObjectKeys(stepMapping))]

\* a dependency list of [step] only
ContextDepsChanged_stepOnly(stepChanged, dataIsNew) == stepChanged

\* The useMemo dependency list differs from the previous render's: data or
\* step changed, or steps (and with it every callback) is a new object.
ContextDepsChanged(stepChanged, dataIsNew) ==
  dataIsNew \/ stepChanged \/ ~StepsIsSameArray

\* the render without the test for a missing step-view
RenderOutput_noFallback(s, d, ctx) ==
  [kind |-> "step", view |-> StepView(stepMapping, s),
   provider |-> <<ctx>>, props |-> << StepProps(s, d) >>]

\* The element returned by the render: the placeholder, or the provider
\* around the current step's view.
RenderOutput(s, d, ctx) ==
  IF StepView(stepMapping, s) = Undefined
  THEN [kind |-> "not-found", view |-> Undefined, provider |-> << >>, props |-> << >>]
  ELSE [kind |-> "step", view |-> StepView(stepMapping, s),
        provider |-> <<ctx>>, props |-> << StepProps(s, d) >>]

NotSolo == -1

NoRead == [done |-> FALSE, inScope |-> FALSE, fault |-> FALSE, value |-> << >>]

Init ==
  /\ stepMapping \in StepMappings
  /\ \E prop \in InitialDataProps : initialData = DefaultInitialData(prop)
  /\ trackSteps \in BOOLEAN
  /\ onStepChange \in BOOLEAN
  /\ step = At(ObjectKeys(stepMapping), 0)
  /\ data = initialData
  /\ pendingStep = step
  /\ pendingData = data
  /\ dataChanged = FALSE
  /\ nOps = 0
  /\ nNext = 0
  /\ lastOp = NoOp
  /\ nCalls = 0
  /\ lastCall = NoCall
  /\ events = StepChangeEvent(step)
  /\ contextValue = ContextOf(step, data)
  /\ output = RenderOutput(step, data, contextValue)
  /\ readResult = NoRead
  /\ justMounted = TRUE
  /\ mountData = initialData
  /\ soloCalls = NotSolo

\* onStepChange(stepId, d, idx), when the prop is supplied
Notify(stepId, d, idx) ==
  IF onStepChange
  THEN /\ nCalls' = nCalls + 1
       /\ lastCall' = [stepId |-> stepId, data |-> d, stepIndex |-> idx]
  ELSE UNCHANGED <<nCalls, lastCall>>

Called(op, isNext) ==
  /\ output.kind = "step"
  /\ nOps < MaxCalls
  /\ readResult' = NoRead
  /\ justMounted' = FALSE
  /\ UNCHANGED <<contextValue, output, mountData>>
  /\ nOps' = nOps + 1
  /\ nNext' = nNext + (IF isNext THEN 1 ELSE 0)
  /\ lastOp' = op
  /\ soloCalls' = IF soloCalls # NotSolo /\ isNext /\ soloCalls < Len(steps)
                  THEN soloCalls + 1 ELSE soloCalls
  /\ UNCHANGED <<props, step, data, events>>

\* nextStep with the bound test written as <=
nextStep_offByOne ==
  /\ Called(Op("nextStep", "none", <<>>), TRUE)
  /\ LET currentIndex == indexOf(steps, step) IN
       IF currentIndex + 1 <= Len(steps)
       THEN /\ pendingStep' = At(steps, currentIndex + 1)
            /\ Notify(At(steps, currentIndex + 1), data, currentIndex + 1)
       ELSE UNCHANGED <<pendingStep, nCalls, lastCall>>
  /\ UNCHANGED <<pendingData, dataChanged>>

\* nextStep passing the index it came from to the callback
nextStep_oldIndex ==
  /\ Called(Op("nextStep", "none", <<>>), TRUE)
  /\ LET currentIndex == indexOf(steps, step) IN
       IF currentIndex + 1 < Len(steps)
       THEN /\ pendingStep' = At(steps, currentIndex + 1)
            /\ Notify(At(steps, currentIndex + 1), data, currentIndex)
       ELSE UNCHANGED <<pendingStep, nCalls, lastCall>>
  /\ UNCHANGED <<pendingData, dataChanged>>

\* nextStep with the callback moved out of the bound test
nextStep_alwaysNotify ==
  /\ Called(Op("nextStep", "none", <<>>), TRUE)
  /\ LET currentIndex == indexOf(steps, step) IN
       /\ IF currentIndex + 1 < Len(steps)
          THEN pendingStep' = At(steps, currentIndex + 1)
          ELSE UNCHANGED pendingStep
       /\ Notify(pendingStep', data, indexOf(steps, pendingStep'))
  /\ UNCHANGED <<pendingData, dataChanged>>

\* nextStep refusing the move onto the last key
nextStep_stopsShort ==
  /\ Called(Op("nextStep", "none", <<>>), TRUE)
  /\ LET currentIndex == indexOf(steps, step) IN
       IF currentIndex + 2 < Len(steps)
       THEN /\ pendingStep' = At(steps, currentIndex + 1)
            /\ Notify(At(steps, currentIndex + 1), data, currentIndex + 1)
       ELSE UNCHANGED <<pendingStep, nCalls, lastCall>>
  /\ UNCHANGED <<pendingData, dataChanged>>

nextStep ==
  /\ Called(Op("nextStep", "none", <<>>), TRUE)
  /\ LET currentIndex == indexOf(steps, step) IN
       IF currentIndex + 1 < Len(steps)
       THEN /\ pendingStep' = At(steps, currentIndex + 1)
            /\ Notify(At(steps, currentIndex + 1), data, currentIndex + 1)
       ELSE UNCHANGED <<pendingStep, nCalls, lastCall>>
  /\ UNCHANGED <<pendingData, dataChanged>>

\* prevStep with the bound test written as >= -1
prevStep_offByOne ==
  /\ Called(Op("prevStep", "none", <<>>), FALSE)
  /\ LET currentIndex == indexOf(steps, step) IN
       IF currentIndex - 1 >= -1
       THEN /\ pendingStep' = At(steps, currentIndex - 1)
            /\ Notify(At(steps, currentIndex - 1), data, currentIndex - 1)
       ELSE UNCHANGED <<pendingStep, nCalls, lastCall>>
  /\ UNCHANGED <<pendingData, dataChanged>>

prevStep ==
  /\ Called(Op("prevStep", "none", <<>>), FALSE)
  /\ LET currentIndex == indexOf(steps, step) IN
       IF currentIndex - 1 >= 0
       THEN /\ pendingStep' = At(steps, currentIndex - 1)
            /\ Notify(At(steps, currentIndex - 1), data, currentIndex - 1)
       ELSE UNCHANGED <<pendingStep, nCalls, lastCall>>
  /\ UNCHANGED <<pendingData, dataChanged>>

\* toStep without the membership test
toStep_noCheck(stepId) ==
  /\ Called(Op("toStep", stepId, <<>>), FALSE)
  /\ pendingStep' = stepId
  /\ Notify(stepId, data, indexOf(steps, stepId))
  /\ UNCHANGED <<pendingData, dataChanged>>

toStep(stepId) ==
  /\ Called(Op("toStep", stepId, <<>>), FALSE)
  /\ IF includes(steps, stepId)
     THEN /\ pendingStep' = stepId
          /\ Notify(stepId, data, indexOf(steps, stepId))
     ELSE UNCHANGED <<pendingStep, nCalls, lastCall>>
  /\ UNCHANGED <<pendingData, dataChanged>>

\* updateData merging into the rendered data instead of the updater's prev
updateData_stale(newData) ==
  /\ Called(Op("updateData", "none", <<newData>>), FALSE)
  /\ pendingData' = Merge(data, newData)
  /\ dataChanged' = TRUE
  /\ UNCHANGED <<pendingStep, nCalls, lastCall>>

updateData(newData) ==
  /\ Called(Op("updateData", "none", <<newData>>), FALSE)
  /\ pendingData' = Merge(pendingData, newData)
  /\ dataChanged' = TRUE
  /\ UNCHANGED <<pendingStep, nCalls, lastCall>>

\* resetData merging the reset record into the data instead of replacing it
resetData_merge(newData, sameObject) ==
  /\ Called(Op("resetData", "none", newData), FALSE)
  /\ LET resetToData == IF newData # <<>> THEN newData[1] ELSE initialData IN
       /\ sameObject => resetToData = data
       /\ pendingData' = Merge(pendingData, resetToData)
       /\ dataChanged' = ~sameObject
       /\ pendingStep' = At(steps, 0)
       /\ Notify(At(steps, 0), resetToData, 0)

\* newData is <<>> when the argument is omitted and <<d>> otherwise.  sameObject
\* says that the object passed (or initialData) is the very object held in the
\* data state, which only an object of equal content can be.
resetData(newData, sameObject) ==
  /\ Called(Op("resetData", "none", newData), FALSE)
  /\ LET resetToData == IF newData # <<>> THEN newData[1] ELSE initialData IN
       /\ sameObject => resetToData = data
       /\ pendingData' = resetToData
       /\ dataChanged' = ~sameObject
       /\ pendingStep' = At(steps, 0)
       /\ Notify(At(steps, 0), resetToData, 0)

\* The event handler has returned: React processes the queued updates,
\* re-renders when a state value differs (Object.is) from the rendered one,
\* and then runs the effect whose dependencies changed.
Render ==
  /\ nOps > 0
  /\ LET rerender == pendingStep # step \/ dataChanged
         depsChanged == pendingStep # step \/ ~StepsIsSameArray
     IN /\ step' = pendingStep
        /\ data' = pendingData
        /\ events' = IF rerender /\ depsChanged THEN StepChangeEvent(pendingStep) ELSE << >>
        /\ contextValue' =
             IF rerender /\ ContextDepsChanged(pendingStep # step, dataChanged)
             THEN ContextOf(pendingStep, pendingData) ELSE contextValue
        /\ output' = IF rerender
                     THEN RenderOutput(pendingStep, pendingData, contextValue')
                     ELSE output
  /\ dataChanged' = FALSE
  /\ nOps' = 0
  /\ nNext' = 0
  /\ nCalls' = 0
  /\ lastOp' = NoOp
  /\ lastCall' = NoCall
  /\ UNCHANGED <<props, pendingStep, pendingData, readResult, justMounted, mountData,
                 soloCalls>>

\* The embedding application re-renders the wizard, passing prop as
\* initialData: the state is kept, the render and its effect run again and
\* the callbacks now close over the new initialData.
parentRender(prop) ==
  /\ nOps = 0
  /\ initialData' = DefaultInitialData(prop)
  /\ events' = IF ~StepsIsSameArray THEN StepChangeEvent(step) ELSE << >>
  /\ contextValue' = IF ContextDepsChanged(FALSE, FALSE)
                     THEN ContextOf(step, data) ELSE contextValue
  /\ output' = RenderOutput(step, data, contextValue')
  /\ readResult' = NoRead
  /\ justMounted' = FALSE
  /\ UNCHANGED <<stepMapping, trackSteps, onStepChange, step, data, pendingStep,
                 pendingData, dataChanged, nOps, nNext, lastOp, nCalls, lastCall,
                 mountData, soloCalls>>

\* useWizardContext without the test of the context
useWizardContext_unchecked(inScope) ==
  /\ nOps = 0
  /\ inScope => output.provider # << >>
  /\ LET context == IF inScope THEN output.provider ELSE << >> IN
       readResult' = [done |-> TRUE, inScope |-> inScope, fault |-> FALSE, value |-> context]
  /\ UNCHANGED <<props, step, data, pendingStep, pendingData, dataChanged, nOps,
                 nNext, lastOp, nCalls, lastCall, events, contextValue, output,
                 justMounted, mountData, soloCalls>>

\* useWizardContext() called while rendering a component that is a
\* descendant of the step-view (inScope) or outside every wizard scope.
\* useContext gives the nearest provider's value, undefined without one.
useWizardContext(inScope) ==
  /\ nOps = 0
  /\ inScope => output.provider # << >>
  /\ LET context == IF inScope THEN output.provider ELSE << >> IN
       readResult' = IF context = << >>
                     THEN [done |-> TRUE, inScope |-> inScope, fault |-> TRUE, value |-> << >>]
                     ELSE [done |-> TRUE, inScope |-> inScope, fault |-> FALSE, value |-> context]
  /\ UNCHANGED <<props, step, data, pendingStep, pendingData, dataChanged, nOps,
                 nNext, lastOp, nCalls, lastCall, events, contextValue, output,
                 justMounted, mountData, soloCalls>>

\* toStep is tried with every key of the mapping and with an unknown id.
ToStepArgs == {stepMapping[i] : i \in 1..Len(stepMapping)} \cup {"zz"}
UpdateArgs == { [EmptyData EXCEPT !["x"] = MaxVal],
                [x |-> 1, y |-> 1] }
ResetArgs  == { <<>>, <<EmptyData>>, << [EmptyData EXCEPT !["y"] = MaxVal] >> }

Next ==
  \/ nextStep
  \/ prevStep
  \/ \E stepId \in ToStepArgs : toStep(stepId)
  \/ \E newData \in UpdateArgs : updateData(newData)
  \/ \E newData \in ResetArgs, sameObject \in BOOLEAN : resetData(newData, sameObject)
  \/ Render
  \/ \E prop \in InitialDataProps : parentRender(prop)
  \/ \E inScope \in BOOLEAN : useWizardContext(inScope)

Spec == Init /\ [][Next]_vars

\* From this render on the application calls nothing but nextStep.
startSolo ==
  /\ soloCalls = NotSolo
  /\ nOps = 0
  /\ soloCalls' = 0
  /\ UNCHANGED <<props, step, data, pendingStep, pendingData, dataChanged, nOps,
                 nNext, lastOp, nCalls, lastCall, events, contextValue, output,
                 readResult, justMounted, mountData>>

\* Until then the application's event handlers call any one operation each,
\* its renders read the context and its parent re-renders it.
anyOperation ==
  /\ soloCalls = NotSolo
  /\ nOps = 0
  /\ \/ nextStep
     \/ prevStep
     \/ \E stepId \in ToStepArgs : toStep(stepId)
     \/ \E newData \in UpdateArgs : updateData(newData)
     \/ \E newData \in ResetArgs, sameObject \in BOOLEAN : resetData(newData, sameObject)
     \/ \E prop \in InitialDataProps : parentRender(prop)
     \/ \E inScope \in BOOLEAN : useWizardContext(inScope)

\* An event handler that calls nextStep once, on the callback of the latest
\* render.
soloNextStep ==
  /\ soloCalls # NotSolo
  /\ nOps = 0
  /\ nextStep

NextSolo ==
  \/ anyOperation
  \/ startSolo
  \/ soloNextStep
  \/ Render

\* React always processes the updates a handler queued: the re-render is
\* weakly fair. Whether the application goes on calling nextStep is its own
\* choice and gets no fairness.
SpecSolo == Init /\ [][NextSolo]_vars /\ WF_vars(Render)

TypeOK ==
  /\ step \in StepIds \cup {Undefined}
  /\ data \in Partial
  /\ pendingData \in Partial
  /\ nOps \in 0..MaxCalls
  /\ soloCalls \in {NotSolo} \cup 0..MaxSteps

\* ------------------------------------------------------------ properties
NavOps == {"nextStep", "prevStep", "toStep"}
\* this step is a call of the named operation
CallOf(name) == nOps' = nOps + 1 /\ lastOp'.name = name
\* this step is the re-render that follows an event handler
Committed == nOps > 0 /\ nOps' = 0
Min(a, b) == IF a < b THEN a ELSE b
CallbackGot(id, idx) ==
  onStepChange => /\ nCalls' = nCalls + 1
                  /\ lastCall'.stepId = id
                  /\ lastCall'.stepIndex = idx

\* C1: with a mapping of at least one key, the current step is always a key
\* of the mapping and stepIndex is always in [0, totalSteps).
C1_StepIsAKey ==
  totalSteps >= 1 =>
    /\ \E i \in 1..Len(stepMapping) : stepMapping[i] = step
    /\ stepIndex >= 0
    /\ stepIndex < totalSteps
C1_Witness ==
  /\ totalSteps >= 2
  /\ nOps = 0
  /\ stepIndex = totalSteps - 1
  /\ data # initialData

\* C2: calls act on the step left by the call before them: a handler that
\* only calls nextStep, k times from index i, leaves the wizard at index
\* min(i + k, totalSteps - 1) (calls from 'a' in {a, b, c} end at 'c').
C2_NextStepsCompose ==
  [][(Committed /\ nNext = nOps /\ totalSteps >= 1)
       => stepIndex' = Min(stepIndex + nNext, totalSteps - 1)]_vars

\* C3: the data argument of an onStepChange invocation made by nextStep,
\* prevStep or toStep is the data record with every earlier updateData
\* applied.
C3_CallbackGetsCurrentData ==
  [][((\E n \in NavOps : CallOf(n)) /\ nCalls' = nCalls + 1)
       => lastCall'.data = pendingData]_vars

\* C4: nextStep at index i below the last sets the step to index i + 1 and
\* invokes onStepChange once with that step and i + 1; at the last step it
\* changes nothing and invokes nothing.
C4_NextStep ==
  [][/\ CallOf("nextStep") =>
          IF stepIndex < totalSteps - 1
          THEN /\ pendingStep' = At(steps, stepIndex + 1)
               /\ CallbackGot(At(steps, stepIndex + 1), stepIndex + 1)
               /\ UNCHANGED pendingData
          ELSE UNCHANGED <<pendingStep, pendingData, nCalls, lastCall>>
     /\ (Committed /\ nOps = 1 /\ lastOp.name = "nextStep") =>
          /\ stepIndex' = Min(stepIndex + 1, totalSteps - 1)
          /\ data' = data]_vars
C4_Witness ==
  /\ lastOp.name = "nextStep"
  /\ nOps = 1
  /\ nCalls = 1
  /\ indexOf(steps, pendingStep) = stepIndex + 1
  /\ lastCall.stepIndex = stepIndex + 1

\* C5: prevStep at index i > 0 sets the step to index i - 1 and invokes
\* onStepChange once with that step and i - 1; at the first step it changes
\* nothing and invokes nothing.
C5_PrevStep ==
  [][/\ CallOf("prevStep") =>
          IF stepIndex > 0
          THEN /\ pendingStep' = At(steps, stepIndex - 1)
               /\ CallbackGot(At(steps, stepIndex - 1), stepIndex - 1)
               /\ UNCHANGED pendingData
          ELSE UNCHANGED <<pendingStep, pendingData, nCalls, lastCall>>
     /\ (Committed /\ nOps = 1 /\ lastOp.name = "prevStep" /\ totalSteps >= 1) =>
          /\ stepIndex' = (IF stepIndex > 0 THEN stepIndex - 1 ELSE 0)
          /\ data' = data]_vars
C5_Witness ==
  /\ lastOp.name = "prevStep"
  /\ nOps = 1
  /\ nCalls = 1
  /\ stepIndex > 0
  /\ indexOf(steps, pendingStep) = stepIndex - 1
  /\ lastCall.stepIndex = stepIndex - 1

\* C6: toStep(id) with id a key makes id the step, from any step, and invokes
\* onStepChange with id and its index; with an unknown id it changes nothing
\* and invokes nothing.
C6_ToStep ==
  [][/\ CallOf("toStep") =>
          LET id == lastOp'.stepId IN
          IF \E i \in 1..Len(stepMapping) : stepMapping[i] = id
          THEN /\ pendingStep' = id
               /\ CallbackGot(id, indexOf(steps, id))
               /\ UNCHANGED pendingData
          ELSE UNCHANGED <<pendingStep, pendingData, nCalls, lastCall>>
     /\ (Committed /\ nOps = 1 /\ lastOp.name = "toStep") =>
          /\ step' = (IF \E i \in 1..Len(stepMapping) : stepMapping[i] = lastOp.stepId
                      THEN lastOp.stepId ELSE step)
          /\ data' = data]_vars
C6_Witness ==
  /\ lastOp.name = "toStep"
  /\ nCalls = 1
  /\ pendingStep = lastOp.stepId
  /\ stepIndex = 0
  /\ indexOf(steps, pendingStep) = 2

\* C7: updateData(partial) gives every key of partial its new value, keeps
\* every other key, leaves the step alone and invokes no callback; this
\* composes over the calls of one handler.
C7_UpdateDataMerges ==
  [][/\ CallOf("updateData") =>
          LET partial == lastOp'.newData[1] IN
          /\ \A f \in Fields :
               pendingData'[f] = IF partial[f] # Absent THEN partial[f] ELSE pendingData[f]
          /\ UNCHANGED <<pendingStep, nCalls, lastCall>>
     /\ (Committed /\ lastOp.name = "updateData") =>
          LET partial == lastOp.newData[1] IN
          \A f \in Fields : partial[f] # Absent => data'[f] = partial[f]]_vars
C7_Witness ==
  /\ lastOp.name = "updateData"
  /\ nOps = 2
  /\ pendingData = [x |-> MaxVal, y |-> 1]
  /\ data = EmptyData
  /\ lastOp.newData[1] = [EmptyData EXCEPT !["x"] = MaxVal]

\* C8: resetData() makes the data record initialData and resetData(p) makes
\* it p, both make the first key the step and invoke onStepChange once with
\* (first key, the reset data, 0).
C8_ResetData ==
  [][/\ (CallOf("resetData") /\ totalSteps >= 1) =>
          LET target == IF lastOp'.newData = <<>> THEN initialData
                        ELSE lastOp'.newData[1] IN
          /\ pendingData' = target
          /\ pendingStep' = At(steps, 0)
          /\ onStepChange =>
               /\ nCalls' = nCalls + 1
               /\ lastCall' = [stepId |-> At(steps, 0), data |-> target, stepIndex |-> 0]
     /\ (Committed /\ lastOp.name = "resetData" /\ totalSteps >= 1) =>
          /\ data' = (IF lastOp.newData = <<>> THEN initialData ELSE lastOp.newData[1])
          /\ stepIndex' = 0]_vars
C8_Witness ==
  /\ lastOp.name = "resetData"
  /\ lastOp.newData = <<>>
  /\ nOps = 1
  /\ nCalls = 1
  /\ stepIndex > 0
  /\ data # initialData
  /\ pendingData = initialData
  /\ pendingStep = At(steps, 0)

\* C9: with trackSteps on, a navigation call that invokes onStepChange is
\* followed by exactly one notification carrying the new step and its index.
C9_OneEventPerTransition ==
  [][(trackSteps /\ Committed /\ nOps = 1 /\ nCalls = 1 /\ lastOp.name \in NavOps)
       => events' = << [step |-> lastCall.stepId, stepIndex |-> lastCall.stepIndex] >>]_vars

\* C10: nextStep, prevStep and toStep invoke onStepChange exactly once when
\* the call changes the step and not at all when the step stays the same.
C10_CallbackIffStepChanges ==
  [][(onStepChange /\ nOps = 0 /\ \E n \in NavOps : CallOf(n))
       => nCalls' = (IF pendingStep' # step THEN 1 ELSE 0)]_vars

\* C11: in every render that shows a step-view, the value a descendant reads
\* with useWizardContext has the step, data, stepIndex and totalSteps the
\* step-view got as props; stepIndex is the position of step in key order
\* and totalSteps the number of keys.
C11_ContextMatchesProps ==
  /\ output.kind = "step" =>
       LET ctx == output.provider[1]
           p   == output.props[1]
       IN /\ ctx.step = p.step /\ ctx.data = p.data
          /\ ctx.stepIndex = p.stepIndex /\ ctx.totalSteps = p.totalSteps
          /\ p.step = step /\ p.data = data
          /\ p.stepIndex >= 0 /\ p.stepIndex < Len(steps)
          /\ steps[p.stepIndex + 1] = p.step
          /\ p.totalSteps = Len(stepMapping)
  /\ (readResult.done /\ readResult.inScope) =>
       /\ output.kind = "step"
       /\ readResult.value # << >>
       /\ readResult.value[1].step = output.props[1].step
       /\ readResult.value[1].data = output.props[1].data
       /\ readResult.value[1].stepIndex = output.props[1].stepIndex
       /\ readResult.value[1].totalSteps = output.props[1].totalSteps
C11_Witness ==
  /\ readResult.done
  /\ readResult.inScope
  /\ readResult.value[1].stepIndex = 1
  /\ readResult.value[1].data = [x |-> MaxVal, y |-> 1]
  /\ data # mountData

\* C12: useWizardContext raises a fault when called outside every wizard
\* scope and never when called inside one.
C12_FaultIffOutsideScope ==
  readResult.done => (readResult.fault <=> ~readResult.inScope)
C12_Witness ==
  /\ readResult.done
  /\ ~readResult.inScope
  /\ readResult.fault
  /\ output.kind = "step"

\* C13: the render shows the step-view the mapping holds for the current
\* step; when there is none (a key mapped to nothing, an empty mapping) it
\* shows the placeholder and creates no scope.
C13_ViewOrPlaceholder ==
  IF (\E i \in 1..Len(stepMapping) : stepMapping[i] = step) /\ step \notin NoViewKeys
  THEN /\ output.kind = "step"
       /\ output.view = step
       /\ output.provider # << >>
  ELSE /\ output.kind = "not-found"
       /\ output.provider = << >>
       /\ output.props = << >>
C13_Witness ==
  /\ output.kind = "not-found"
  /\ step = "n"
  /\ stepIndex = 1
  /\ ~justMounted

\* C14: a wizard mounted with at least one key starts at the first key in
\* definition order with stepIndex 0, totalSteps the number of keys and the
\* data record initialData, and mounting invokes no onStepChange.
C14_MountsAtFirstDefinedKey ==
  (justMounted /\ Len(stepMapping) >= 1) =>
    /\ step = stepMapping[1]
    /\ stepIndex = 0
    /\ totalSteps = Len(stepMapping)
    /\ data = initialData
    /\ nCalls = 0
    /\ lastCall = NoCall

\* C15: with trackSteps false no notification is ever emitted.
C15_NoEventsWithoutTracking ==
  ~trackSteps => events = << >>
C15_Witness ==
  /\ ~trackSteps
  /\ ~justMounted
  /\ nOps = 0
  /\ stepIndex > 0
  /\ data # mountData
  /\ events = << >>

KeysOf(d) == {f \in Fields : d[f] # Absent}

\* C16: nextStep, prevStep and toStep leave the data record alone, it only
\* changes through updateData and resetData, and updateData never removes a
\* key.
C16_DataFrame ==
  [][/\ (\E n \in NavOps : CallOf(n)) =>
          /\ pendingData' = pendingData
          /\ data' = data
          /\ dataChanged' = dataChanged
     /\ CallOf("updateData") => KeysOf(pendingData) \subseteq KeysOf(pendingData')
     /\ ~(CallOf("updateData") \/ CallOf("resetData")) => pendingData' = pendingData
     /\ IF Committed THEN data' = pendingData ELSE data' = data]_vars
C16_Witness ==
  /\ lastOp.name \in NavOps
  /\ nOps = 2
  /\ pendingStep # step
  /\ KeysOf(pendingData) = {"x", "y"}
  /\ KeysOf(data) = {}

\* C17: every onStepChange invocation carries a step and that step's position
\* in key order, and after the handler's re-render the wizard is at the step
\* and index of the handler's last invocation.
C17_CallbackDescribesOutcome ==
  [][/\ nCalls' = nCalls + 1 =>
          /\ lastCall'.stepIndex >= 0
          /\ lastCall'.stepIndex < Len(steps)
          /\ steps[lastCall'.stepIndex + 1] = lastCall'.stepId
     /\ (Committed /\ nCalls >= 1) =>
          /\ step' = lastCall.stepId
          /\ stepIndex' = lastCall.stepIndex]_vars
C17_Witness ==
  /\ nCalls >= 2
  /\ lastOp.name = "nextStep"
  /\ lastCall.stepId # step
  /\ lastCall.stepIndex = 2

\* C18: resetData() without an argument resets the data record to the
\* initialData the wizard was mounted with, whatever initialData later
\* renders were given.
C18_ResetsToMountData ==
  [][(CallOf("resetData") /\ lastOp'.newData = << >>)
       => pendingData' = mountData]_vars

\* C19: with trackSteps on, mounting emits no notification and a re-render
\* in which the step is unchanged emits none.
C19_EventsOnlyOnStepChange ==
  [][/\ (justMounted /\ totalSteps >= 1) => events = << >>
     /\ (Committed /\ step' = step) => events' = << >>]_vars

\* C20: from a step that is not the last, nextStep followed by prevStep in one
\* handler leaves the wizard at the same step with the same data.
C20_NextThenPrev ==
  [][(Committed /\ nOps = 2 /\ nNext = 1 /\ lastOp.name = "prevStep"
        /\ stepIndex >= 0 /\ stepIndex < totalSteps - 1)
       => (step' = step /\ data' = data)]_vars

\* C21: once nextStep is the only operation called, one call per render:
\* every call at a step that is not the last advances one step and invokes
\* onStepChange once, every call at the last step changes nothing and
\* invokes nothing, the wizard once at the last step stays there, and when
\* totalSteps - 1 calls have been made the wizard comes to render the last
\* step.
C21_NextStepRunsToLastStep ==
  /\ [][(soloCalls # NotSolo /\ soloCalls' # NotSolo) =>
          /\ CallOf("nextStep") =>
                /\ nOps = 0
                /\ pendingStep' = At(steps, Min(stepIndex + 1, totalSteps - 1))
                /\ nCalls' = IF onStepChange /\ stepIndex < totalSteps - 1
                             THEN 1 ELSE 0
          /\ Committed => stepIndex' = Min(stepIndex + 1, totalSteps - 1)
          /\ stepIndex = totalSteps - 1 => stepIndex' = totalSteps - 1]_vars
  /\ [](soloCalls # NotSolo /\ soloCalls >= totalSteps - 1 /\ nOps = 0
          => stepIndex = totalSteps - 1)
  /\ (soloCalls # NotSolo /\ soloCalls >= totalSteps - 1)
       ~> (stepIndex = totalSteps - 1 /\ nOps = 0)
C21_Witness ==
  /\ totalSteps = MaxSteps
  /\ soloCalls = totalSteps - 1
  /\ stepIndex = totalSteps - 1
  /\ nOps = 0
  /\ onStepChange
====
